---- MODULE Spec2Model ----
(***************************************************************************)
(* Model of src/app.py: a Flask service over a perfume catalog held in a   *)
(* module-level pandas DataFrame `df`, with the derived VOCAB and          *)
(* MATRIZ_VECTORES, and the four GET handlers.                             *)
(*                                                                         *)
(* Text is a sequence of one-character strings.  A missing CSV cell (NaN)  *)
(* and an absent query parameter (None) are one-element sequences whose    *)
(* element is no character, so they compare unequal to every text.         *)
(* A DataFrame is [columns, index, rows]: the ordered column labels, the   *)
(* row labels, and one record (column label -> value) per row.             *)
(***************************************************************************)
EXTENDS Integers, Sequences, FiniteSets, TLC

\* ------------------------------------------------------------------ bounds
MaxRows == 3      \* rows of the CSV file
MaxCell == 2      \* length of a free-text CSV cell (SpecTexto)
MaxArg == 3       \* length of a free-text query parameter (SpecTexto)
MaxTopN == 2      \* largest integer given as ?n=
MaxPagina == 3    \* largest ?pagina= and ?por_pagina=

\* ------------------------------------------------------- python / pandas
NaN == <<"<NaN>">>
None == <<"<None>">>

notna(v) == v # NaN

\* str(v) of a cell: float('nan') prints as "nan", text is itself.
str(v) == IF v = NaN THEN <<"n", "a", "n">> ELSE v

\* bool(v) of an optional text: None and "" are falsy.
truthy(v) == v # None /\ v # <<>>

lower_char(c) ==
    CASE c = "A" -> "a"
      [] c = "B" -> "b"
      [] c = "C" -> "c"
      [] c = "T" -> "t"
      [] OTHER -> c

lower(s) == [i \in 1..Len(s) |-> lower_char(s[i])]

\* s.strip(): the alphabet's only whitespace is the blank.
strip(s) ==
    LET keep == {i \in 1..Len(s) : s[i] # " "}
    IN  IF keep = {} THEN <<>>
        ELSE LET lo == CHOOSE i \in keep : \A j \in keep : i <= j
                 hi == CHOOSE i \in keep : \A j \in keep : j <= i
             IN  SubSeq(s, lo, hi)

\* s.split(sep): always at least one piece, empty pieces kept.
RECURSIVE split(_, _)
split(s, sep) ==
    LET at == {i \in 1..Len(s) : s[i] = sep}
    IN  IF at = {} THEN <<s>>
        ELSE LET p == CHOOSE i \in at : \A j \in at : i <= j
             IN  <<SubSeq(s, 1, p - 1)>> \o split(SubSeq(s, p + 1, Len(s)), sep)

\* ord(c) for the characters in use.
ord(c) ==
    CASE c = " " -> 32
      [] c = "(" -> 40
      [] c = "," -> 44
      [] c = "." -> 46
      [] c = "A" -> 65
      [] c = "B" -> 66
      [] c = "C" -> 67
      [] c = "T" -> 84
      [] c = "a" -> 97
      [] c = "b" -> 98
      [] c = "c" -> 99
      [] c = "e" -> 101
      [] c = "n" -> 110
      [] c = "r" -> 114
      [] c = "t" -> 116
      [] c = "u" -> 117
      [] OTHER -> 0

\* s < t for two str values (lexicographic by code point).
RECURSIVE str_lt(_, _)
str_lt(s, t) ==
    IF t = <<>> THEN FALSE
    ELSE IF s = <<>> THEN TRUE
    ELSE IF s[1] # t[1] THEN ord(s[1]) < ord(t[1])
    ELSE str_lt(Tail(s), Tail(t))

\* sorted(S) for a set of str.
RECURSIVE sorted(_)
sorted(S) ==
    IF S = {} THEN <<>>
    ELSE LET m == CHOOSE x \in S : \A y \in S \ {x} : str_lt(x, y)
         IN  <<m>> \o sorted(S \ {m})

\* re.compile(pat) raises re.error: of the characters in use only "(" can
\* make a pattern invalid (an unterminated group).
re_error(pat) == \E i \in 1..Len(pat) : pat[i] = "("

\* One pattern character against one text character under re.IGNORECASE:
\* "." matches any character, every other character in use is a literal.
re_char(p, c) == p = "." \/ lower_char(p) = lower_char(c)

\* Series.str.contains(pat, case=False, na=False) on one str value, for a
\* pattern that compiles: re.search(pat, text, re.IGNORECASE) is not None.
\* (regex=True is the default of str.contains.)
str_contains(text, pat) ==
    \E off \in 0..(Len(text) - Len(pat)) :
        \A i \in 1..Len(pat) : re_char(pat[i], text[off + i])

Range(s) == {s[i] : i \in 1..Len(s)}

\* ------------------------------------------------------------ DataFrame
\* pd.read_csv: a RangeIndex 0..n-1 over the file's rows.
RangeIndex(n) == [i \in 1..n |-> i - 1]

DataFrame(columns, index, rows) ==
    [columns |-> columns, index |-> index, rows |-> rows]

len(frame) == Len(frame.rows)

\* frame[mask]: the rows whose position is in `keep`, order and labels kept.
RECURSIVE positions(_, _)
positions(keep, n) ==
    IF n = 0 THEN <<>>
    ELSE positions(keep, n - 1) \o (IF n \in keep THEN <<n>> ELSE <<>>)

take(frame, pos) ==
    DataFrame(frame.columns,
              [k \in 1..Len(pos) |-> frame.index[pos[k]]],
              [k \in 1..Len(pos) |-> frame.rows[pos[k]]])

getitem_mask(frame, keep) == take(frame, positions(keep, len(frame)))

\* The slice taken one row early (a 1-based start).
iloc_slice_desfasado(frame, inicio, fin) ==
    getitem_mask(frame, {p \in 1..len(frame) : inicio <= p /\ p < fin})

\* frame.iloc[inicio:fin] for 0 <= inicio <= fin: a slice clamps to the length.
iloc_slice(frame, inicio, fin) ==
    getitem_mask(frame, {p \in 1..len(frame) : inicio < p /\ p <= fin})

\* frame[name] = values: a new last column, or the existing one overwritten.
setitem(frame, name, values) ==
    DataFrame(IF name \in Range(frame.columns) THEN frame.columns
              ELSE Append(frame.columns, name),
              frame.index,
              [k \in 1..len(frame) |->
                  IF name \in DOMAIN frame.rows[k]
                  THEN [frame.rows[k] EXCEPT ![name] = values[k]]
                  ELSE frame.rows[k] @@ (name :> values[k])])

\* frame[labels] raises KeyError when a label is no column of the frame.
KeyError(frame, labels) == ~(Range(labels) \subseteq Range(frame.columns))

\* frame[labels].to_dict(orient='records')
to_dict_records(frame, labels) ==
    [k \in 1..len(frame) |-> [c \in Range(labels) |-> frame.rows[k][c]]]

\* frame.head(n): the first n rows; for n < 0 all but the last -n rows.
head(frame, n) ==
    IF n >= 0 THEN iloc_slice(frame, 0, n)
    ELSE iloc_slice(frame, 0, len(frame) + n)

\* ------------------------------------------------------------ similarity
dot(u, v) ==
    LET RECURSIVE sum(_)
        sum(k) == IF k = 0 THEN 0 ELSE u[k] * v[k] + sum(k - 1)
    IN  sum(Len(u))

RECURSIVE gcd(_, _)
gcd(a, b) == IF b = 0 THEN a ELSE gcd(b, a % b)

\* A cosine score c >= 0 is kept exactly, as the fraction n/d in lowest
\* terms that equals c*c (floating-point rounding is not modelled).
\* sklearn's cosine_similarity normalises each row by its L2 norm, an
\* all-zero row staying all-zero, and takes dot products: 0 for such a row.
cosine(u, v) ==
    LET uv == dot(u, v)
        n2 == dot(u, u) * dot(v, v)
    IN  IF n2 = 0 \/ uv = 0 THEN [n |-> 0, d |-> 1]
        ELSE LET g == gcd(uv * uv, n2) IN [n |-> (uv * uv) \div g, d |-> n2 \div g]

\* cosine_similarity(base_vec, matriz)[0]
cosine_similarity(base_vec, matriz) ==
    [k \in 1..Len(matriz) |-> cosine(base_vec, matriz[k])]

score_lt(a, b) == a.n * b.d < b.n * a.d

\* (score * 100).round(1).astype(str) + "%", kept as the number of tenths
\* of a percent: round(1000 * c) with c = sqrt(n/d).
RECURSIVE isqrt(_, _, _, _)
isqrt(num, den, lo, hi) ==
    IF lo = hi THEN lo
    ELSE LET mid == (lo + hi + 1) \div 2
         IN  IF mid * mid * den <= num THEN isqrt(num, den, mid, hi)
             ELSE isqrt(num, den, lo, mid - 1)

porcentaje(score) == (isqrt(4000000 * score.n, score.d, 0, 2000) + 1) \div 2

\* The order of a column's values: scores by value, text by code point.
valor_lt(by, a, b) ==
    IF by = "score_similaridad" THEN score_lt(a, b) ELSE str_lt(a, b)

\* A cosine score is never missing; a text cell is when it is NaN.
valor_isna(by, a) ==
    IF by = "score_similaridad" THEN FALSE ELSE ~notna(a)

\* frame.sort_values(by=by, ascending=ascending): kind='quicksort' is the
\* default and is not stable, so rows with equal keys may come out in any
\* order; missing keys go last either way (na_position='last').  The
\* result is one of these frames.
sort_values(frame, by, ascending) ==
    LET n == len(frame)
        key(p) == frame.rows[p][by]
        first(x, y) ==
            \/ ~valor_isna(by, key(x)) /\ valor_isna(by, key(y))
            \/ /\ ~valor_isna(by, key(x)) /\ ~valor_isna(by, key(y))
               /\ IF ascending THEN valor_lt(by, key(x), key(y))
                  ELSE valor_lt(by, key(y), key(x))
        perms == {q \in [1..n -> 1..n] : \A a, b \in 1..n : a # b => q[a] # q[b]}
    IN  {take(frame, q) : q \in {r \in perms :
            \A a, b \in 1..n : a < b => ~first(r[b], r[a])}}

\* ------------------------------------------------------- module globals
VARIABLES
    csv,                  \* fra_perfumes.csv as read_csv parses it
    df,                   \* the module-level DataFrame
    CAMPOS_DISPONIBLES,   \* the columns a response exposes
    VOCAB,                \* the sorted note vocabulary
    MATRIZ_VECTORES,      \* one 0/1 row per row of df
    th                    \* per request thread: pc, handler, args, locals, response

vars == <<csv, df, CAMPOS_DISPONIBLES, VOCAB, MATRIZ_VECTORES, th>>

CAMPOS_VALIDOS ==
    <<"url", "perfume", "marca", "genero", "año", "salida",
      "corazon", "base", "perfumista", "perfumista 2", "main_accords">>

\* c.lower().startswith("mainaccord"), for the column labels in use.
es_mainaccord(c) == c \in {"mainaccord1", "mainaccord2", "MainAccord3"}

\* The lambda of df[main_cols].apply(..., axis=1): the non-blank accord
\* cells of one row, in column order, each as str(v).
main_accords_de(row, main_cols) ==
    LET celdas == [k \in 1..Len(main_cols) |-> row[main_cols[k]]]
        llenas == SelectSeq(celdas, LAMBDA v : notna(v) /\ strip(str(v)) # <<>>)
    IN  [k \in 1..Len(llenas) |-> str(llenas[k])]

con_main_accords(frame) ==
    LET main_cols == SelectSeq(frame.columns, es_mainaccord)
    IN  setitem(frame, "main_accords",
                [k \in 1..len(frame) |->
                    IF main_cols # <<>> THEN main_accords_de(frame.rows[k], main_cols)
                    ELSE <<>>])

\* extraer_notas(row); `columns` is df.columns.  list(set(notas)) has no
\* defined order: the value is kept as the set.
extraer_notas(row, columns) ==
    LET de_campo(campo) ==
            IF campo \in Range(columns) /\ campo \in DOMAIN row /\ notna(row[campo])
            THEN {lower(strip(n)) : n \in Range(split(str(row[campo]), ","))}
            ELSE {}
        de_acordes ==
            IF "main_accords" \in DOMAIN row
            THEN {lower(str(n)) : n \in Range(row["main_accords"])}
            ELSE {}
    IN  de_campo("salida") \cup de_campo("corazon") \cup de_campo("base")
            \cup de_acordes

con_todas_notas(frame) ==
    setitem(frame, "todas_notas",
            [k \in 1..len(frame) |-> extraer_notas(frame.rows[k], frame.columns)])

\* Lines 33-77: df after the module has been imported.
cargar_df(file) ==
    con_todas_notas(con_main_accords(
        DataFrame(file.columns, RangeIndex(Len(file.rows)), file.rows)))

campos_disponibles(frame) ==
    SelectSeq(CAMPOS_VALIDOS, LAMBDA campo : campo \in Range(frame.columns))

vocabulario(frame) ==
    sorted(UNION {frame.rows[k]["todas_notas"] : k \in 1..len(frame)})

vectorizar_notas(notas, vocab) ==
    [k \in 1..Len(vocab) |-> IF vocab[k] \in notas THEN 1 ELSE 0]

matriz_vectores(frame, vocab) ==
    [k \in 1..len(frame) |-> vectorizar_notas(frame.rows[k]["todas_notas"], vocab)]

filtrar_campos(df_sub, campos) == to_dict_records(df_sub, campos)

\* --------------------------------------------------------------- requests
\* An integer query parameter as int() sees it: absent, an integer, or a
\* text int() rejects with ValueError.
ausente == [kind |-> "absent", v |-> 0]
entero(k) == [kind |-> "int", v |-> k]
no_entero == [kind |-> "bad", v |-> 0]

ValueError(param) == param.kind = "bad"
int_de(param, defecto) == IF param.kind = "absent" THEN defecto ELSE param.v

\* abort(code, description) as the error handlers render it.
abort(code, description) ==
    [status |-> code, body |-> [error |-> description]]

jsonify(body) == [status |-> 200, body |-> body]

\* A thread with no request.
ocioso == [pc |-> "idle", op |-> "", args |-> <<>>, loc |-> <<>>, resp |-> <<>>]

libre(t) == th[t].pc = "idle"

responder(t, op, args, loc, resp) ==
    th' = [th EXCEPT ![t] =
              [pc |-> "done", op |-> op, args |-> args, loc |-> loc, resp |-> resp]]

\* GET /perfumes
get_perfumes(t, args) ==
    /\ libre(t)
    /\ LET pagina == int_de(args.pagina, 1)
           por_pagina == int_de(args.por_pagina, 50)
           inicio == (pagina - 1) * por_pagina
           fin == inicio + por_pagina
           subset == iloc_slice(df, inicio, fin)
       IN  IF ValueError(args.pagina) \/ ValueError(args.por_pagina)
           THEN responder(t, "get_perfumes", args, [subset |-> <<>>],
                          abort(400, "Parametros de paginacion invalidos"))
           ELSE IF pagina < 1 \/ por_pagina < 1
           THEN responder(t, "get_perfumes", args, [subset |-> <<>>],
                          abort(400, "Los parametros de paginacion deben ser positivos"))
           ELSE responder(t, "get_perfumes", args, [subset |-> subset.index],
                          jsonify([pagina |-> pagina,
                                   por_pagina |-> por_pagina,
                                   total |-> len(df),
                                   perfumes |-> filtrar_campos(subset, CAMPOS_DISPONIBLES)]))
    /\ UNCHANGED <<csv, df, CAMPOS_DISPONIBLES, VOCAB, MATRIZ_VECTORES>>

\* GET /perfumes/<int:perfume_id>: the route's converter admits only
\* non-negative integers.
get_perfume(t, perfume_id) ==
    /\ libre(t)
    /\ IF perfume_id < 0 \/ perfume_id >= len(df)
       THEN responder(t, "get_perfume", perfume_id, <<>>,
                      abort(404, "Perfume ID no encontrado"))
       ELSE responder(t, "get_perfume", perfume_id, <<>>,
                      jsonify(filtrar_campos(
                          getitem_mask(df, {perfume_id + 1}), CAMPOS_DISPONIBLES)[1]))
    /\ UNCHANGED <<csv, df, CAMPOS_DISPONIBLES, VOCAB, MATRIZ_VECTORES>>

\* GET /perfumes/search -----------------------------------------------
\* filtros_texto, in the dict's order (parameter and column share the name).
filtros_texto == <<"marca", "genero", "perfume", "perfumista", "año">>

\* Lines 138-141 from the k-th filter on: the filtered frame, or the
\* re.error that str.contains raises compiling `valor` (raised whether or
\* not the frame has rows).
RECURSIVE filtros_basicos(_, _, _)
filtros_basicos(query, args, k) ==
    IF k > Len(filtros_texto) THEN [error |-> FALSE, query |-> query]
    ELSE LET columna == filtros_texto[k]
             valor == args[columna]
         IN  IF truthy(valor) /\ columna \in Range(query.columns)
             THEN IF re_error(valor) THEN [error |-> TRUE, query |-> query]
                  ELSE filtros_basicos(
                           getitem_mask(query, {p \in 1..len(query) :
                               str_contains(str(query.rows[p][columna]), valor)}),
                           args, k + 1)
             ELSE filtros_basicos(query, args, k + 1)

\* [x.strip().lower() for x in param.split(",") if x.strip()]
tokens(param) ==
    LET partes == SelectSeq(split(param, ","), LAMBDA x : strip(x) # <<>>)
    IN  [k \in 1..Len(partes) |-> lower(strip(partes[k]))]

\* any() where the handler has all().
contiene_alguna(row, notas_buscar, columns) ==
    \E n \in Range(notas_buscar) : n \in extraer_notas(row, columns)

contiene_todas(row, notas_buscar, columns) ==
    \A n \in Range(notas_buscar) : n \in extraer_notas(row, columns)

contiene_todos_acordes(acordes, acordes_buscar) ==
    LET acordes_lower == {lower(str(a)) : a \in Range(acordes)}
    IN  \A a \in Range(acordes_buscar) : a \in acordes_lower

\* query[query.apply(f, axis=1)] and query[serie.apply(f)].  On a frame
\* with rows the result of apply is a boolean mask.  On a frame without
\* rows apply returns an empty non-boolean object, which pandas versions
\* take either as a mask or as an (empty) list of column labels: the
\* result is then the frame itself or a frame with no columns.
getitem_apply(query, keep) ==
    IF len(query) > 0 THEN {getitem_mask(query, keep)}
    ELSE {query, DataFrame(<<>>, <<>>, <<>>)}

por_notas(query, notas_param, columns) ==
    IF truthy(notas_param)
    THEN getitem_apply(query, {p \in 1..len(query) :
             contiene_todas(query.rows[p], tokens(notas_param), columns)})
    ELSE {query}

por_acordes(query, acordes_param) ==
    IF truthy(acordes_param) /\ "main_accords" \in Range(query.columns)
    THEN getitem_apply(query, {p \in 1..len(query) :
             contiene_todos_acordes(query.rows[p]["main_accords"], tokens(acordes_param))})
    ELSE {query}

\* `orden` is a column label, "" standing for an absent or empty parameter.
ordenar(query, orden, desc) ==
    IF orden # "" /\ orden \in Range(query.columns)
    THEN LET ascendente == ~(lower(IF desc = None THEN <<>> ELSE desc)
                                 = <<"t", "r", "u", "e">>)
         IN  sort_values(query, orden, ascendente)
    ELSE {query}

\* The frames `query` can be at line 171, or "error" for an exception
\* raised on the way.
consultas(args, frame) ==
    LET basicos == filtros_basicos(frame, args, 1)
    IN  IF basicos.error THEN {[error |-> TRUE, query |-> frame]}
        ELSE {[error |-> FALSE, query |-> q3] :
                 q3 \in UNION {ordenar(q2, args.orden, args.desc) :
                     q2 \in UNION {por_acordes(q1, args.acorde) :
                         q1 \in por_notas(basicos.query, args.nota, frame.columns)}}}

search_perfumes(t, args) ==
    /\ libre(t)
    /\ \E c \in consultas(args, df) :
          IF c.error \/ KeyError(c.query, CAMPOS_DISPONIBLES)
          THEN responder(t, "search_perfumes", args, [query |-> <<>>],
                         abort(500, "Error interno en la busqueda"))
          ELSE LET resultados == filtrar_campos(c.query, CAMPOS_DISPONIBLES)
               IN  responder(t, "search_perfumes", args, [query |-> c.query.index],
                       jsonify([total_resultados |-> Len(resultados),
                                parametros_busqueda |->
                                    [nota |-> args.nota, acorde |-> args.acorde,
                                     marca |-> args.marca, genero |-> args.genero,
                                     perfume |-> args.perfume]
                                    @@ ("año" :> args["año"]),
                                resultados |-> resultados]))
    /\ UNCHANGED <<csv, df, CAMPOS_DISPONIBLES, VOCAB, MATRIZ_VECTORES>>

\* GET /perfumes/similares -------------------------------------------
\* The handler writes the shared df (line 205) and reads it back (line
\* 207); Flask serves each request on its own thread, so the handler is
\* three steps: up to line 204, line 205, and line 207 to the end.

\* Lines 192-204: validate, resolve the base, compute its similarities.
sim_resolver(t, args) ==
    /\ libre(t)
    /\ LET nombre == args.nombre
           coincidencias == getitem_mask(df, {p \in 1..len(df) :
               str_contains(str(df.rows[p]["perfume"]), nombre)})
           idx_base == coincidencias.index[1]
           base_vec == MATRIZ_VECTORES[idx_base + 1]
           similitudes == cosine_similarity(base_vec, MATRIZ_VECTORES)
       IN  IF ~truthy(nombre)
           THEN responder(t, "get_similares_nombre", args, <<>>,
                          abort(400, "Debes proporcionar el parametro 'nombre'"))
           ELSE IF "perfume" \notin Range(df.columns) \/ re_error(nombre)
           THEN responder(t, "get_similares_nombre", args, <<>>,
                          abort(500, "Internal Server Error"))
           ELSE IF len(coincidencias) = 0
           THEN responder(t, "get_similares_nombre", args, <<>>,
                          abort(404, "No se encontro ningun perfume que coincida"))
           ELSE th' = [th EXCEPT ![t] =
                    [pc |-> "L205", op |-> "get_similares_nombre", args |-> args,
                     loc |-> [idx_base |-> idx_base, similitudes |-> similitudes],
                     resp |-> <<>>]]
    /\ UNCHANGED <<csv, df, CAMPOS_DISPONIBLES, VOCAB, MATRIZ_VECTORES>>

\* Line 205: df['score_similaridad'] = similitudes
sim_escribir(t) ==
    /\ th[t].pc = "L205"
    /\ df' = setitem(df, "score_similaridad", th[t].loc.similitudes)
    /\ th' = [th EXCEPT ![t].pc = "L207"]
    /\ UNCHANGED <<csv, CAMPOS_DISPONIBLES, VOCAB, MATRIZ_VECTORES>>

\* Lines 207-219: rank the other rows by the column as df holds it now.
sim_ordenar(t) ==
    /\ th[t].pc = "L207"
    /\ LET args == th[t].args
           idx_base == th[t].loc.idx_base
           otros == getitem_mask(df, {p \in 1..len(df) : df.index[p] # idx_base})
       IN  \E ordenados \in sort_values(otros, "score_similaridad", FALSE) :
              LET top_n == int_de(args.n, 10)
                  similares == head(ordenados, top_n)
                  campos == filtrar_campos(similares, CAMPOS_DISPONIBLES)
                  similares_out ==
                      [k \in 1..len(similares) |->
                          campos[k] @@ ("similitud" :>
                              porcentaje(similares.rows[k]["score_similaridad"]))]
                  base == filtrar_campos(getitem_mask(df, {idx_base + 1}),
                                         CAMPOS_DISPONIBLES)[1]
              IN  IF ValueError(args.n)
                  THEN responder(t, "get_similares_nombre", args,
                           [idx_base |-> idx_base, similares |-> <<>>, scores |-> <<>>],
                           abort(500, "Internal Server Error"))
                  ELSE responder(t, "get_similares_nombre", args,
                           [idx_base |-> idx_base,
                            similares |-> similares.index,
                            scores |-> [k \in 1..len(similares) |->
                                           similares.rows[k]["score_similaridad"]]],
                           jsonify([base |-> base, similares |-> similares_out]))
    /\ UNCHANGED <<csv, df, CAMPOS_DISPONIBLES, VOCAB, MATRIZ_VECTORES>>

\* The response is sent and the request's thread ends.
fin(t) ==
    /\ th[t].pc = "done"
    /\ th' = [th EXCEPT ![t] = ocioso]
    /\ UNCHANGED <<csv, df, CAMPOS_DISPONIBLES, VOCAB, MATRIZ_VECTORES>>

\* ------------------------------------------------------------------ inputs
Columnas == <<"perfume", "marca", "salida", "mainaccord1">>

fila(perfume, marca, salida, mainaccord1) ==
    [perfume |-> perfume, marca |-> marca, salida |-> salida,
     mainaccord1 |-> mainaccord1]

\* The rows a file is made of: note sets {a,b}, {a,c}, {b,c} and {}.
Filas ==
    { fila(<<"a">>, <<"b">>, <<"a", ",", "b">>, NaN),
      fila(<<"A", "b">>, <<"a">>, <<" ", "A">>, <<"C">>),
      fila(NaN, <<"b">>, <<"b">>, <<"c">>),
      fila(<<"b", "a">>, NaN, NaN, <<" ">>) }

\* A file with no rows is left out: with one, lines 43 and 77 assign the
\* result of apply on an empty frame, and the import may not get through.
Archivos ==
    {[columns |-> Columnas, rows |-> r] :
        r \in UNION {[1..n -> Filas] : n \in 1..MaxRows}}

Enteros(lo, hi) == {ausente, no_entero} \cup {entero(k) : k \in lo..hi}

Paginaciones ==
    [pagina : Enteros(0, MaxPagina), por_pagina : Enteros(0, MaxPagina)]

Identificadores == 0..(MaxRows + 1)

busqueda(marca, perfume, nota, acorde, orden, desc) ==
    [marca |-> marca, genero |-> None, perfume |-> perfume, perfumista |-> None,
     nota |-> nota, acorde |-> acorde, orden |-> orden, desc |-> desc]
    @@ ("año" :> None)

Busquedas ==
    {busqueda(marca, perfume, nota, acorde, orden, desc) :
        marca \in {None, <<"b">>},
        perfume \in {None, <<"A">>},
        nota \in {None, <<"a", ",", "B">>},
        acorde \in {None, <<"c">>},
        orden \in {"", "perfume", "mainaccord1", "score_similaridad", "zzz"},
        desc \in {None, <<"T", "r", "u", "e">>}}

Nombres == {None, <<"a">>, <<"B">>, <<".">>, <<"(">>}

Similares == [nombre : Nombres, n : Enteros(0 - 1, MaxTopN)]

\* ------------------------------------------------------------------- specs
Arranque(archivos, hilos) ==
    /\ csv \in archivos
    /\ df = cargar_df(csv)
    /\ CAMPOS_DISPONIBLES = campos_disponibles(df)
    /\ VOCAB = vocabulario(df)
    /\ MATRIZ_VECTORES = matriz_vectores(df, VOCAB)
    /\ th = [t \in hilos |-> ocioso]

\* One request at a time.
Init == Arranque(Archivos, {1})

Next ==
    \/ \E t \in DOMAIN th, args \in Paginaciones : get_perfumes(t, args)
    \/ \E t \in DOMAIN th, perfume_id \in Identificadores : get_perfume(t, perfume_id)
    \/ \E t \in DOMAIN th, args \in Busquedas : search_perfumes(t, args)
    \/ \E t \in DOMAIN th, args \in Similares : sim_resolver(t, args)
    \/ \E t \in DOMAIN th : sim_escribir(t)
    \/ \E t \in DOMAIN th : sim_ordenar(t)
    \/ \E t \in DOMAIN th : fin(t)

Spec == Init /\ [][Next]_vars

\* Two requests for similar perfumes in flight at once.
SimilaresConc == [nombre : {<<"a">>, <<"B">>}, n : {ausente, entero(1)}]

InitConc == Arranque(Archivos, {1, 2})

NextConc ==
    \/ \E t \in DOMAIN th, args \in SimilaresConc : sim_resolver(t, args)
    \/ \E t \in DOMAIN th : sim_escribir(t)
    \/ \E t \in DOMAIN th : sim_ordenar(t)
    \/ \E t \in DOMAIN th : fin(t)

SpecConc == InitConc /\ [][NextConc]_vars

\* Searches with free text: a one-row file whose cells, and one search
\* parameter at a time, range over every text up to a length.
Textos(alfabeto, k) == UNION {[1..n -> alfabeto] : n \in 0..k}

\* read_csv gives NaN for an empty cell, never "".
Celdas(alfabeto) == (Textos(alfabeto, MaxCell) \ {<<>>}) \cup {NaN}

AlfabetoNotas == {"a", "B", " ", ","}
AlfabetoNombres == {"a", "B", "."}
AlfabetoPatron == {"a", "B", ".", "("}

ColumnasTexto == <<"perfume", "salida", "mainaccord1">>

fila_texto(perfume, salida, mainaccord1) ==
    [perfume |-> perfume, salida |-> salida, mainaccord1 |-> mainaccord1]

ArchivosTexto ==
    {[columns |-> ColumnasTexto, rows |-> <<r>>] : r \in
        {fila_texto(perfume, <<"a">>, NaN) : perfume \in Celdas(AlfabetoNombres)}
        \cup {fila_texto(<<"a">>, salida, mainaccord1) :
                  salida \in Celdas(AlfabetoNotas), mainaccord1 \in {<<"B">>}}
        \cup {fila_texto(<<"a">>, salida, mainaccord1) :
                  salida \in {<<"a">>}, mainaccord1 \in Celdas(AlfabetoNotas)}}

BusquedasTexto ==
    {busqueda(None, perfume, None, None, "", None) :
        perfume \in Textos(AlfabetoPatron, MaxArg)}
    \cup {busqueda(None, None, nota, None, "", None) :
        nota \in Textos(AlfabetoNotas, MaxArg)}
    \cup {busqueda(None, None, None, acorde, "", None) :
        acorde \in Textos(AlfabetoNotas, MaxArg)}

InitTexto == Arranque(ArchivosTexto, {1})

NextTexto ==
    \/ \E t \in DOMAIN th, args \in BusquedasTexto : search_perfumes(t, args)
    \/ \E t \in DOMAIN th : fin(t)

SpecTexto == InitTexto /\ [][NextTexto]_vars

\* ------------------------------------------------------------------ claims
hecho(t, op) == th[t].pc = "done" /\ th[t].op = op

\* C1: after initialization no query changes the catalog table, the
\* vocabulary or the similarity matrix: columns and values stay as loaded.
C1_SoloLectura ==
    /\ df = cargar_df(csv)
    /\ VOCAB = vocabulario(cargar_df(csv))
    /\ MATRIZ_VECTORES = matriz_vectores(cargar_df(csv), VOCAB)

\* C3: a similarity ranking never contains its base record, is ordered by
\* cosine score descending, and lists records of equal score in ascending
\* record-identifier order.
C3_RankingOrdenado ==
    \A t \in DOMAIN th :
        hecho(t, "get_similares_nombre") /\ th[t].resp.status = 200 =>
            LET ids == th[t].loc.similares
                sc == th[t].loc.scores
            IN  /\ \A k \in 1..Len(ids) : ids[k] # th[t].loc.idx_base
                /\ \A j, k \in 1..Len(ids) : j < k =>
                      /\ ~score_lt(sc[j], sc[k])
                      /\ sc[j] = sc[k] => ids[j] < ids[k]

\* C4: similar-to with top_n < 1 is rejected as an invalid argument and
\* returns no ranking; with top_n >= 1 it returns the first
\* min(top_n, count - 1) entries of the ranking.
C4_TopNValidado ==
    \A t \in DOMAIN th :
        hecho(t, "get_similares_nombre") /\ th[t].args.n.kind = "int"
            /\ th[t].resp.status \notin {404, 500} /\ truthy(th[t].args.nombre) =>
            IF th[t].args.n.v < 1
            THEN th[t].resp.status = 400
            ELSE /\ th[t].resp.status = 200
                 /\ Len(th[t].resp.body.similares)
                        = IF th[t].args.n.v < len(df) - 1 THEN th[t].args.n.v
                          ELSE len(df) - 1

\* C5: for page >= 1 and page_size >= 1 list-page returns exactly the
\* catalog records at positions [(page-1)*page_size, page*page_size) in load
\* order, clamped to the catalog length (empty past the end, no error), at
\* most page_size of them, with total the catalog's record count; a page or
\* page_size below 1 is rejected as an invalid request.
C5_Paginacion ==
    \A t \in DOMAIN th :
        hecho(t, "get_perfumes") /\ ~ValueError(th[t].args.pagina)
            /\ ~ValueError(th[t].args.por_pagina) =>
            LET page == int_de(th[t].args.pagina, 1)
                page_size == int_de(th[t].args.por_pagina, 50)
                total == Len(csv.rows)
                desde == (page - 1) * page_size
                hasta == IF page * page_size < total THEN page * page_size ELSE total
                body == th[t].resp.body
            IN  IF page < 1 \/ page_size < 1 THEN th[t].resp.status = 400
                ELSE /\ th[t].resp.status = 200
                     /\ body.total = total
                     /\ Len(body.perfumes) <= page_size
                     /\ Len(body.perfumes) = (IF hasta > desde THEN hasta - desde ELSE 0)
                     /\ \A k \in 1..Len(body.perfumes) :
                           /\ th[t].loc.subset[k] = desde + k - 1
                           /\ \A c \in {"perfume", "marca", "salida"} :
                                 body.perfumes[k][c] = csv.rows[desde + k][c]
                           /\ body.perfumes[k]["main_accords"]
                                 = cargar_df(csv).rows[desde + k]["main_accords"]

C5_Witness ==
    \E t \in DOMAIN th :
        /\ hecho(t, "get_perfumes")
        /\ th[t].resp.status = 200
        /\ th[t].args.pagina = entero(2)
        /\ th[t].args.por_pagina = entero(2)
        /\ Len(th[t].resp.body.perfumes) = 1
        /\ "score_similaridad" \in Range(df.columns)

\* C7: the sortable fields are exactly the public field names, at any time:
\* a search whose sort field is not a public field name gives what the same
\* search without a sort field gives, and raises no error of its own.
C7_OrdenSoloPublico ==
    \A t \in DOMAIN th :
        hecho(t, "search_perfumes")
            /\ th[t].args.orden \notin Range(CAMPOS_DISPONIBLES) =>
            \E c \in consultas([th[t].args EXCEPT !.orden = ""], df) :
                IF c.error \/ KeyError(c.query, CAMPOS_DISPONIBLES)
                THEN th[t].resp.status = 500
                ELSE th[t].resp.status = 200 /\ th[t].loc.query = c.query.index

\* `aguja` occurs in `texto` as a literal substring, ignoring case.
subcadena(texto, aguja) ==
    \E off \in 0..(Len(texto) - Len(aguja)) :
        \A i \in 1..Len(aguja) : lower_char(aguja[i]) = lower_char(texto[off + i])

\* C10: similar-to takes as base the lowest-identifier record whose name
\* contains the given substring ignoring case and ranks against that
\* record's matrix row; with no such record it fails as not found, returns
\* no ranking and leaves the engine state unchanged.
C10_BasePorNombre ==
    \A t \in DOMAIN th :
        hecho(t, "get_similares_nombre") /\ truthy(th[t].args.nombre)
            /\ ~ValueError(th[t].args.n) =>
            LET con == {k \in 1..Len(csv.rows) :
                           subcadena(str(csv.rows[k].perfume), th[t].args.nombre)}
            IN  IF con = {} THEN th[t].resp.status = 404
                ELSE /\ th[t].resp.status = 200
                     /\ \A k \in con : th[t].loc.idx_base <= k - 1
                     /\ th[t].loc.idx_base + 1 \in con

\* What a similar-to request with this base and top_n returns when no
\* other request runs: the rankings (labels and scores) it can produce.
a_solas(idx_base, top_n) ==
    LET propio == setitem(df, "score_similaridad",
                          cosine_similarity(MATRIZ_VECTORES[idx_base + 1], MATRIZ_VECTORES))
        otros == getitem_mask(propio, {p \in 1..len(propio) : propio.index[p] # idx_base})
    IN  {[similares |-> head(o, top_n).index,
          scores |-> [k \in 1..len(head(o, top_n)) |->
                         head(o, top_n).rows[k]["score_similaridad"]]] :
            o \in sort_values(otros, "score_similaridad", FALSE)}

\* C2: each of two concurrent similar-to requests returns exactly the
\* ranking and scores it would return running alone, under any interleaving.
C2_ComoASolas ==
    \A t \in DOMAIN th :
        hecho(t, "get_similares_nombre") /\ th[t].resp.status = 200 =>
            [similares |-> th[t].loc.similares, scores |-> th[t].loc.scores]
                \in a_solas(th[t].loc.idx_base, int_de(th[t].args.n, 10))

\* The trimmed, lowercased, non-empty tokens of a comma-separated filter.
fichas(filtro) ==
    {lower(strip(x)) : x \in {y \in Range(split(filtro, ",")) : strip(y) # <<>>}}

solo_nota(nota) == busqueda(None, None, nota, None, "", None)

\* The rows (labels) a search for the one note token `ficha` returns.
con_ficha(ficha) ==
    UNION {Range(c.query.index) : c \in consultas(solo_nota(ficha), df)}

\* C6: the note filter is set-AND: a record matches a comma-separated note
\* filter iff it matches each of the filter's trimmed, lowercased non-empty
\* tokens used alone as a filter; a filter with no token filters nothing.
C6_NotasAND ==
    \A t \in DOMAIN th :
        hecho(t, "search_perfumes") /\ th[t].args = solo_nota(th[t].args.nota)
            /\ truthy(th[t].args.nota) =>
            /\ th[t].resp.status = 200
            /\ \A k \in 1..len(df) :
                  df.index[k] \in Range(th[t].loc.query)
                      <=> \A f \in fichas(th[t].args.nota) : df.index[k] \in con_ficha(f)

C6_Witness ==
    \E t \in DOMAIN th :
        /\ hecho(t, "search_perfumes")
        /\ th[t].args = solo_nota(<<"B", ",", "a">>)
        /\ th[t].loc.query = <<0>>
        /\ csv.rows[1].salida = <<"a">>
        /\ csv.rows[1].mainaccord1 = <<"B">>

solo_perfume(perfume) == busqueda(None, perfume, None, None, "", None)

\* C8: field filters are a stable conjunctive substring filter: without a
\* sort field a search returns, in load order, exactly the records in which
\* every supplied non-empty filter value is, ignoring case, a literal
\* substring of the field's text; an absent or empty value excludes nothing
\* and no filter value makes the search fail.
C8_FiltroSubcadena ==
    \A t \in DOMAIN th :
        hecho(t, "search_perfumes") /\ th[t].args = solo_perfume(th[t].args.perfume) =>
            /\ th[t].resp.status = 200
            /\ [k \in 1..Len(th[t].loc.query) |-> th[t].loc.query[k] + 1] =
                  positions({k \in 1..Len(csv.rows) :
                                truthy(th[t].args.perfume) =>
                                    subcadena(str(csv.rows[k].perfume), th[t].args.perfume)},
                            Len(csv.rows))

\* The non-blank accord cells of a file row, in column order, trimmed.
acordes_recortados(row, columns) ==
    LET cols == SelectSeq(columns, es_mainaccord)
        vals == SelectSeq([k \in 1..Len(cols) |-> row[cols[k]]],
                          LAMBDA v : v # NaN /\ strip(v) # <<>>)
    IN  [k \in 1..Len(vals) |-> strip(vals[k])]

solo_acorde(acorde) == busqueda(None, None, None, acorde, "", None)

\* C9: after load main_accords holds the non-blank accord-column values in
\* column order, duplicates kept, each trimmed; all_notes is the set of
\* lowercased, trimmed tokens of the note fields plus main_accords; so an
\* accord filter token equal, ignoring case, to the trimmed text of one of a
\* record's accord values matches that record.
C9_AcordesRecortados ==
    /\ \A k \in 1..len(df) :
          LET acordes == acordes_recortados(csv.rows[k], csv.columns)
              notas == UNION {{lower(strip(x)) : x \in Range(split(csv.rows[k][c], ","))} :
                                 c \in {d \in {"salida", "corazon", "base"} :
                                           d \in Range(csv.columns) /\ csv.rows[k][d] # NaN}}
          IN  /\ df.rows[k]["main_accords"] = acordes
              /\ df.rows[k]["todas_notas"] = notas \cup {lower(a) : a \in Range(acordes)}
    /\ \A t \in DOMAIN th :
          hecho(t, "search_perfumes") /\ th[t].args = solo_acorde(th[t].args.acorde)
              /\ th[t].args.acorde # None /\ "," \notin Range(th[t].args.acorde) =>
              \A k \in 1..len(df) :
                  (\E a \in Range(acordes_recortados(csv.rows[k], csv.columns)) :
                       lower(a) = lower(strip(th[t].args.acorde)))
                      => th[t].resp.status = 200 /\ df.index[k] \in Range(th[t].loc.query)

====
